---- MODULE Spec2Model ----
(***************************************************************************)
(* A model of GitHub/api.py: the GitHubAPI client (fetch, repository       *)
(* search, default-branch lookup, file listing, README lookup) and the     *)
(* orchestration fetch_crypto_repositories that drives it and writes       *)
(* data/crypto_repos.json.                                                 *)
(*                                                                         *)
(* Python values are represented as follows.                               *)
(*   None / a value v      <<>> / <<v>>          (None, Some)              *)
(*   a JSON object         a set of <<key, value>> pairs; {} is the empty  *)
(*                         object, the only falsy one                      *)
(*   a JSON list           a sequence; <<>> is the only falsy one          *)
(*   a URL                 url: the sequence of its "/"-separated          *)
(*                         segments, params: its query string as a         *)
(*                         sequence of <<key, value>> pairs                *)
(*   a coroutine object    a record with its position st ("created" until  *)
(*                         first resumed, then the await it is suspended   *)
(*                         at, then "done"), its locals, the request it is *)
(*                         suspended on (pending) and the requests issued  *)
(*                         and responses received so far (reqs, resps)     *)
(***************************************************************************)
EXTENDS Integers, Sequences, FiniteSets, TLC

VARIABLES
    pc,            \* position of the driving code
    qi,            \* index of the query of the loop at line 147
    repositories,  \* line 146
    unique_repos,  \* line 153, as the sequence of the dict's values
    ri,            \* index of the repo of the loop at line 158
    repo_files,    \* line 162
    repo_data,     \* line 157
    searchTask,    \* the coroutine of search_github_repositories
    filesTask,     \* the coroutine of fetch_repository_files
    readmeTask,    \* the coroutine of fetch_readme
    outfile,       \* the content of data/crypto_repos.json
    writes         \* how many times json.dump has written outfile

vars == <<pc, qi, repositories, unique_repos, ri, repo_files, repo_data,
          searchTask, filesTask, readmeTask, outfile, writes>>

---------------------------------------------------------------------------
(* Bounds of the model. *)

\* the most summaries the search endpoint hands out over one run
MaxRepos == 3
\* the most entries of one contents listing
MaxEntries == 1
\* the largest num_pages a direct call of search_github_repositories is given
MaxPages == 3

---------------------------------------------------------------------------
(* Python values. *)

None == <<>>
Some(v) == <<v>>
Val(o) == o[1]

BSeq(S, n) == UNION {[1..k -> S] : k \in 0..n}

TruthyDict(d) == d # {}
TruthyList(l) == Len(l) > 0

HasKey(d, k) == \E p \in d : p[1] = k
Item(d, k) == (CHOOSE p \in d : p[1] = k)[2]
\* dict.get(k, default)
Get(d, k, default) == IF HasKey(d, k) THEN Item(d, k) ELSE default

---------------------------------------------------------------------------
(* HTTP. *)

HTTP_OK == 200
NOT_FOUND == 404
\* the statuses the server answers with besides 200: 404 and two others for
\* a file on the raw-content host, 404 and one other for the API
RawErrStatuses == {NOT_FOUND, 500, 403}
ErrStatuses == {NOT_FOUND, 500}

OkResp(body) == [status |-> HTTP_OK, body |-> body]
ErrResp(s) == [status |-> s]

\* fetch, lines 20-24: the decoded body on 200, None on any other status
fetch(response) ==
    IF response.status = HTTP_OK THEN Some(response.body) ELSE None

---------------------------------------------------------------------------
(* URLs. *)

GITHUB == <<"https:", "", "github.com">>
API_REPOS == <<"https:", "", "api.github.com", "repos">>
SEARCH_URL == <<"https:", "", "api.github.com", "search", "repositories">>
RAW_HOST == <<"https:", "", "raw.githubusercontent.com">>

\* repo_url.replace("https://github.com", "https://api.github.com/repos"),
\* for a prefix occurrence
ApiUrl(repo_url) ==
    IF Len(repo_url) >= 3 /\ SubSeq(repo_url, 1, 3) = GITHUB
    THEN API_REPOS \o SubSeq(repo_url, 4, Len(repo_url))
    ELSE repo_url

HtmlUrl(owner, name) == GITHUB \o <<owner, name>>

---------------------------------------------------------------------------
(* Search results. *)

SummaryFields ==
    {"id", "name", "full_name", "html_url", "description", "updated_at", "language"}

\* an item of a search response: the seven fields and one more
RawItem(id, name, rev) ==
    [id |-> id, name |-> name, full_name |-> <<"octo", name>>,
     html_url |-> HtmlUrl("octo", name),
     description |-> <<"description", rev>>, updated_at |-> rev,
     language |-> "Python", stargazers_count |-> rev]

\* two revisions of repository 1 and one of repository 2
RawItems == {RawItem(1, "coin", 1), RawItem(1, "coin", 2), RawItem(2, "node", 1)}

\* lines 118-127
filter_repo_data(repo) == [f \in SummaryFields |-> repo[f]]

---------------------------------------------------------------------------
(* search_github_repositories, lines 61-81. *)

Queries ==
    <<"cryptocurrency", "smart contract", "proof-of-work", "full node",
      "full-node", "smart-contract">>

\* line 74
SearchRequest(t, page) ==
    [url |-> SEARCH_URL,
     params |-> <<<<"q", t.query>>, <<"sort", t.sort>>, <<"order", t.order>>,
                  <<"per_page", t.per_page>>, <<"page", page>>>>]

\* the coroutine object of a call, with the defaults of line 61 but num_pages
NewSearch(query, num_pages) ==
    [st |-> "created", query |-> query, sort |-> "updated", order |-> "asc",
     per_page |-> 10, num_pages |-> num_pages, page |-> 0, all_repos |-> <<>>,
     pending |-> None, reqs |-> <<>>, resps |-> <<>>, result |-> <<>>]

\* lines 67-75: build the URL of a page and suspend on its fetch
SearchIssue(t, page) ==
    [t EXCEPT !.st = "running", !.page = page,
              !.pending = Some(SearchRequest(t, page)),
              !.reqs = Append(@, SearchRequest(t, page))]

\* line 81
SearchReturn(t) ==
    [t EXCEPT !.st = "done", !.pending = None, !.result = t.all_repos]

\* line 66 after a page that had data: the next page, or the end of the range
SearchNextPage(t) ==
    IF t.page + 1 <= t.num_pages THEN SearchIssue(t, t.page + 1) ELSE SearchReturn(t)

\* lines 78-79 as if a page without data were skipped instead of ending the loop
SearchOnNoDataContinue(t) == SearchNextPage(t)

\* lines 78-79: break
SearchOnNoData(t) == SearchReturn(t)

\* lines 64-66: the first page, if there is one
SearchStart(t) ==
    IF 1 <= t.num_pages THEN SearchIssue(t, 1) ELSE SearchReturn(t)

\* lines 75-79: resumed with the response to the page it is suspended on
SearchResume(t, response) ==
    LET data == fetch(response)
        t1 == [t EXCEPT !.resps = Append(@, response)]
    IN  IF data # None /\ TruthyDict(Val(data))
        THEN LET items == Item(Val(data), "items")
                 got == [i \in 1..Len(items) |-> filter_repo_data(items[i])]
             IN  SearchNextPage([t1 EXCEPT !.all_repos = @ \o got])
        ELSE SearchOnNoData(t1)

\* what the search endpoint may answer while `room` more items fit the bound
SearchResponses(room) ==
    {ErrResp(s) : s \in ErrStatuses} \cup {OkResp({})}
    \cup {OkResp({<<"items", its>>}) : its \in BSeq(RawItems, room)}

---------------------------------------------------------------------------
(* fetch_default_branch, lines 83-88. *)

MetaRequest(repo_url) == [url |-> ApiUrl(repo_url), params |-> <<>>]

\* lines 86-88 with another fallback than "master"
default_branch_of_main(data) ==
    IF data # None /\ TruthyDict(Val(data))
    THEN Get(Val(data), "default_branch", "main")
    ELSE "main"

\* lines 86-88, given what fetch returned
default_branch_of(data) ==
    IF data # None /\ TruthyDict(Val(data))
    THEN Get(Val(data), "default_branch", "master")
    ELSE "master"

\* lines 85-88
fetch_default_branch(response) == default_branch_of(fetch(response))

MetaResponses ==
    {ErrResp(s) : s \in ErrStatuses}
    \cup {OkResp(d) : d \in {{}, {<<"default_branch", "main">>}, {<<"name", "coin">>}}}

---------------------------------------------------------------------------
(* fetch_repository_files, lines 35-59. *)

Entry(name, type) ==
    [name |-> name, path |-> name, type |-> type,
     html_url |-> <<"blob", name>>, git_url |-> <<"git", name>>]

Entries == {Entry("README.md", "file"), Entry("setup.py", "file"), Entry("src", "dir")}

\* line 43
ContentsRequest(repo_url, default_branch) ==
    [url |-> ApiUrl(repo_url) \o <<"contents">>,
     params |-> <<<<"ref", default_branch>>>>]

\* lines 50-55
FileEntry(item) ==
    [name |-> item.name, path |-> item.path, url |-> item.html_url,
     last_updated |-> item.git_url]

\* lines 47-56
FilesOf(contents) ==
    LET kept == SelectSeq(contents, LAMBDA item : item.type = "file")
    IN  [i \in 1..Len(kept) |-> FileEntry(kept[i])]

\* lines 46-59, given what fetch returned
FilesResult(contents) ==
    IF contents # None /\ TruthyList(Val(contents))
    THEN Some(FilesOf(Val(contents)))
    ELSE None

NewFiles(repo_url) ==
    [st |-> "created", repo_url |-> repo_url, default_branch |-> "",
     pending |-> None, reqs |-> <<>>, resps |-> <<>>, result |-> None]

Issue(t, st, request) ==
    [t EXCEPT !.st = st, !.pending = Some(request), !.reqs = Append(@, request)]

Return(t, result) ==
    [t EXCEPT !.st = "done", !.pending = None, !.result = result]

\* line 37, into fetch_default_branch up to its fetch at line 85
FilesStart(t) == Issue(t, "branch", MetaRequest(t.repo_url))

\* resumed with a response: lines 85-88 and 37-45, or lines 45-59
FilesResume(t, response) ==
    LET t1 == [t EXCEPT !.resps = Append(@, response)]
    IN  IF t.st = "branch"
        THEN LET default_branch == fetch_default_branch(response)
             IN  Issue([t1 EXCEPT !.default_branch = default_branch], "contents",
                       ContentsRequest(t.repo_url, default_branch))
        ELSE Return(t1, FilesResult(fetch(response)))

ContentsResponses ==
    {ErrResp(s) : s \in ErrStatuses}
    \cup {OkResp(l) : l \in BSeq(Entries, MaxEntries)}

---------------------------------------------------------------------------
(* fetch_readme, lines 90-115. *)

\* line 91
readme_filenames == <<"readme", "README", "Readme">>

\* f"{readme_filename}.md"
Md(readme_filename) ==
    CASE readme_filename = "readme" -> "readme.md"
      [] readme_filename = "README" -> "README.md"
      [] readme_filename = "Readme" -> "Readme.md"

\* line 103
ReadmeRequest(t, k) ==
    [url |-> RAW_HOST \o <<t.repo_owner, t.repo_name, t.default_branch,
                           Md(readme_filenames[k])>>,
     params |-> <<>>]

NewReadme(repo_url) ==
    [st |-> "created", repo_url |-> repo_url, repo_owner |-> "", repo_name |-> "",
     default_branch |-> "", k |-> 0,
     pending |-> None, reqs |-> <<>>, resps |-> <<>>, result |-> None]

\* lines 91-99, into fetch_default_branch up to its fetch at line 85
ReadmeStart(t) ==
    Issue([t EXCEPT !.repo_owner = t.repo_url[Len(t.repo_url) - 1],
                    !.repo_name = t.repo_url[Len(t.repo_url)]],
          "branch", MetaRequest(t.repo_url))

\* line 101: the next candidate, or lines 114-115 when there is none left
ReadmeNext(t) ==
    IF t.k + 1 <= Len(readme_filenames)
    THEN Issue([t EXCEPT !.k = t.k + 1], "candidate", ReadmeRequest(t, t.k + 1))
    ELSE Return(t, None)

\* lines 108-109 as if a 404 ended the lookup
ReadmeOnNotFoundGiveUp(t) == Return(t, None)

\* lines 108-109: continue
ReadmeOnNotFound(t) == ReadmeNext(t)

\* lines 110-112 as if any failure were treated like a 404
ReadmeOnErrorContinue(t) == ReadmeNext(t)

\* lines 110-112: return None
ReadmeOnError(t) == Return(t, None)

\* resumed with a response: lines 85-88 and 99-105, or lines 105-115
ReadmeResume(t, response) ==
    LET t1 == [t EXCEPT !.resps = Append(@, response)]
    IN  IF t.st = "branch"
        THEN ReadmeNext([t1 EXCEPT !.default_branch = fetch_default_branch(response)])
        ELSE CASE response.status = HTTP_OK -> Return(t1, Some(response.body))
               [] response.status = NOT_FOUND -> ReadmeOnNotFound(t1)
               [] OTHER -> ReadmeOnError(t1)

Texts == {"# coin", ""}

ReadmeResponses ==
    {ErrResp(s) : s \in RawErrStatuses} \cup {OkResp(text) : text \in Texts}

---------------------------------------------------------------------------
(* Scheduling of the coroutines. *)

NoTask == [st |-> "none", pending |-> None]

\* the coroutine the driving code is suspended on
Awaited ==
    CASE pc \in {"await_search", "call_search"} -> "search"
      [] pc \in {"await_files", "call_files"} -> "files"
      [] pc \in {"await_readme", "call_readme"} -> "readme"
      [] OTHER -> "none"

\* coroutines scheduled as tasks as soon as they are created
RunnableEager(name) == TRUE

\* a coroutine object runs only while it is awaited (lines 149, 162, 163)
Runnable(name) == Awaited = name

Tasks == <<searchTask, filesTask, readmeTask>>

\* the requests in flight
InFlight == {i \in 1..3 : Tasks[i].pending # None}

\* one step of a coroutine: from its creation, or from the response to the
\* request it is suspended on, to its next request or its return
SearchStep ==
    /\ Runnable("search")
    /\ \/ /\ searchTask.st = "created"
          /\ searchTask' = SearchStart(searchTask)
       \/ /\ searchTask.st = "running"
          /\ \E response \in SearchResponses(MaxRepos - Len(repositories)
                                                      - Len(searchTask.all_repos)) :
                searchTask' = SearchResume(searchTask, response)
    /\ UNCHANGED <<pc, qi, repositories, unique_repos, ri, repo_files, repo_data,
                   filesTask, readmeTask, outfile, writes>>

FilesStep ==
    /\ Runnable("files")
    /\ \/ /\ filesTask.st = "created"
          /\ filesTask' = FilesStart(filesTask)
       \/ /\ filesTask.st = "branch"
          /\ \E response \in MetaResponses :
                filesTask' = FilesResume(filesTask, response)
       \/ /\ filesTask.st = "contents"
          /\ \E response \in ContentsResponses :
                filesTask' = FilesResume(filesTask, response)
    /\ UNCHANGED <<pc, qi, repositories, unique_repos, ri, repo_files, repo_data,
                   searchTask, readmeTask, outfile, writes>>

ReadmeStep ==
    /\ Runnable("readme")
    /\ \/ /\ readmeTask.st = "created"
          /\ readmeTask' = ReadmeStart(readmeTask)
       \/ /\ readmeTask.st = "branch"
          /\ \E response \in MetaResponses :
                readmeTask' = ReadmeResume(readmeTask, response)
       \/ /\ readmeTask.st = "candidate"
          /\ \E response \in ReadmeResponses :
                readmeTask' = ReadmeResume(readmeTask, response)
    /\ UNCHANGED <<pc, qi, repositories, unique_repos, ri, repo_files, repo_data,
                   searchTask, filesTask, outfile, writes>>

---------------------------------------------------------------------------
(* Direct calls of the three methods. *)

\* the file as a run finds it
OldFile == [state |-> "old", data |-> <<>>]

Idle ==
    /\ qi = 1 /\ repositories = <<>> /\ unique_repos = <<>> /\ ri = 1
    /\ repo_files = None /\ repo_data = <<>>
    /\ outfile = OldFile /\ writes = 0

\* the repository URLs a method is called with
RepoUrls ==
    {HtmlUrl("octo", "coin"), HtmlUrl("octo", "node"),
     <<"https:", "", "gitlab.com", "octo", "coin">>, <<"octo", "coin">>}

InitSearch ==
    /\ Idle /\ pc = "call_search"
    /\ \E q \in {Queries[i] : i \in 1..Len(Queries)}, n \in 0..MaxPages :
          searchTask = NewSearch(q, n)
    /\ filesTask = NoTask /\ readmeTask = NoTask

InitFiles ==
    /\ Idle /\ pc = "call_files"
    /\ \E u \in RepoUrls : filesTask = NewFiles(u)
    /\ searchTask = NoTask /\ readmeTask = NoTask

InitReadme ==
    /\ Idle /\ pc = "call_readme"
    /\ \E u \in RepoUrls : readmeTask = NewReadme(u)
    /\ searchTask = NoTask /\ filesTask = NoTask

SpecSearch == InitSearch /\ [][SearchStep]_vars
SpecFiles == InitFiles /\ [][FilesStep]_vars
SpecReadme == InitReadme /\ [][ReadmeStep]_vars

---------------------------------------------------------------------------
(* fetch_crypto_repositories, lines 130-170. *)

\* a dict that keeps the first value of a key
DictPutFirst(d, key, value) ==
    IF \E i \in 1..Len(d) : d[i][1] = key THEN d ELSE Append(d, <<key, value>>)

\* a list in place of the dict
DictPutAppend(d, key, value) == Append(d, <<key, value>>)

\* the dict of line 153 as the sequence of its <<key, value>> entries, in
\* insertion order: a new key is appended, a known key keeps its place and
\* takes the new value
DictPut(d, key, value) ==
    IF \E i \in 1..Len(d) : d[i][1] = key
    THEN LET i == CHOOSE i \in 1..Len(d) : d[i][1] = key
         IN  [d EXCEPT ![i] = <<key, value>>]
    ELSE Append(d, <<key, value>>)

RECURSIVE DictOf(_)
\* {repo['id']: repo for repo in repositories}
DictOf(repos) ==
    IF repos = <<>> THEN <<>>
    ELSE LET n == Len(repos)
         IN  DictPut(DictOf(SubSeq(repos, 1, n - 1)), repos[n].id, repos[n])

\* .values()
DictValues(d) == [i \in 1..Len(d) |-> d[i][2]]

\* lines 165-167 as if a repository whose lookup failed were left out
AttachUnlessFailed(data, repo, files, readme) ==
    IF files = None \/ readme = None THEN data
    ELSE Append(data, repo @@ ("files" :> files) @@ ("readme" :> readme))

\* lines 165-167
Attach(data, repo, files, readme) ==
    Append(data, repo @@ ("files" :> files) @@ ("readme" :> readme))

\* line 169 as if it were reached once the first repository has its record
LoopOverEarly == ri > 1

\* line 169 is reached when the loop of line 158 has no repository left
LoopOver == ri > Len(unique_repos)

Init ==
    /\ Idle /\ pc = "loop_queries"
    /\ searchTask = NoTask /\ filesTask = NoTask /\ readmeTask = NoTask

\* line 148
SearchCreate ==
    /\ pc = "loop_queries" /\ qi <= Len(Queries)
    /\ searchTask' = NewSearch(Queries[qi], 1)
    /\ pc' = "await_search"
    /\ UNCHANGED <<qi, repositories, unique_repos, ri, repo_files, repo_data,
                   filesTask, readmeTask, outfile, writes>>

\* lines 149-150
AwaitSearchReturn ==
    /\ pc = "await_search" /\ searchTask.st = "done"
    /\ repositories' = repositories \o searchTask.result
    /\ searchTask' = NoTask
    /\ qi' = qi + 1
    /\ pc' = "loop_queries"
    /\ UNCHANGED <<unique_repos, ri, repo_files, repo_data,
                   filesTask, readmeTask, outfile, writes>>

\* lines 153-157
Dedup ==
    /\ pc = "loop_queries" /\ qi > Len(Queries)
    /\ unique_repos' = DictValues(DictOf(repositories))
    /\ pc' = "loop_repos"
    /\ UNCHANGED <<qi, repositories, ri, repo_files, repo_data,
                   searchTask, filesTask, readmeTask, outfile, writes>>

\* lines 159-160
CreateTasks ==
    /\ pc = "loop_repos" /\ ri <= Len(unique_repos)
    /\ filesTask' = NewFiles(unique_repos[ri].html_url)
    /\ readmeTask' = NewReadme(unique_repos[ri].html_url)
    /\ pc' = "await_files"
    /\ UNCHANGED <<qi, repositories, unique_repos, ri, repo_files, repo_data,
                   searchTask, outfile, writes>>

\* line 162
AwaitFilesReturn ==
    /\ pc = "await_files" /\ filesTask.st = "done"
    /\ repo_files' = filesTask.result
    /\ filesTask' = NoTask
    /\ pc' = "await_readme"
    /\ UNCHANGED <<qi, repositories, unique_repos, ri, repo_data,
                   searchTask, readmeTask, outfile, writes>>

\* lines 163-167
AwaitReadmeReturn ==
    /\ pc = "await_readme" /\ readmeTask.st = "done"
    /\ repo_data' = Attach(repo_data, unique_repos[ri], repo_files, readmeTask.result)
    /\ readmeTask' = NoTask
    /\ repo_files' = None
    /\ ri' = ri + 1
    /\ pc' = "loop_repos"
    /\ UNCHANGED <<qi, repositories, unique_repos,
                   searchTask, filesTask, outfile, writes>>

\* line 169: open(..., 'w') truncates the file
OpenOutput ==
    /\ pc = "loop_repos" /\ LoopOver
    /\ outfile' = [state |-> "truncated", data |-> <<>>]
    /\ pc' = "dump"
    /\ UNCHANGED <<qi, repositories, unique_repos, ri, repo_files, repo_data,
                   searchTask, filesTask, readmeTask, writes>>

\* line 170
Dump ==
    /\ pc = "dump"
    /\ outfile' = [state |-> "written", data |-> repo_data]
    /\ writes' = writes + 1
    /\ pc' = "done"
    /\ UNCHANGED <<qi, repositories, unique_repos, ri, repo_files, repo_data,
                   searchTask, filesTask, readmeTask>>

\* the process is interrupted: what it held in memory is gone, the file stays
Interrupt ==
    /\ pc \notin {"done", "interrupted"}
    /\ pc' = "interrupted"
    /\ qi' = 1 /\ repositories' = <<>> /\ unique_repos' = <<>> /\ ri' = 1
    /\ repo_files' = None /\ repo_data' = <<>>
    /\ searchTask' = NoTask /\ filesTask' = NoTask /\ readmeTask' = NoTask
    /\ UNCHANGED <<outfile, writes>>

Next ==
    \/ SearchCreate \/ SearchStep \/ AwaitSearchReturn \/ Dedup
    \/ CreateTasks \/ FilesStep \/ AwaitFilesReturn
    \/ ReadmeStep \/ AwaitReadmeReturn
    \/ OpenOutput \/ Dump \/ Interrupt

Spec == Init /\ [][Next]_vars

---------------------------------------------------------------------------
(* search_github_repositories: early stop. *)

\* the summaries of one page, field by field
PageItems(response) ==
    IF response.status = 200 /\ HasKey(response.body, "items")
    THEN LET its == Item(response.body, "items")
         IN  [i \in 1..Len(its) |->
                 [id |-> its[i].id, name |-> its[i].name,
                  full_name |-> its[i].full_name, html_url |-> its[i].html_url,
                  description |-> its[i].description,
                  updated_at |-> its[i].updated_at, language |-> its[i].language]]
    ELSE <<>>

RECURSIVE PagesBefore(_, _)
\* the summaries of the pages before page k, in page order
PagesBefore(resps, k) ==
    IF k <= 1 THEN <<>> ELSE PagesBefore(resps, k - 1) \o PageItems(resps[k - 1])

\* C2: the i-th request of a search is for page i, and once the fetch of page
\* k has returned null the search has returned, has issued exactly k requests
\* and its result is the summaries of pages 1..k-1 in page order.
C2_StopsAtFirstNull ==
    LET t == searchTask
    IN  /\ \A i \in 1..Len(t.reqs) : t.reqs[i].params[5] = <<"page", i>>
        /\ \A k \in 1..Len(t.resps) :
              t.resps[k].status # 200 =>
                 /\ t.st = "done"
                 /\ Len(t.reqs) = k
                 /\ t.result = PagesBefore(t.resps, k)

\* a search of three pages whose second page failed after a first page with
\* a summary
C2_Witness ==
    LET t == searchTask
    IN  /\ t.num_pages = 3 /\ t.st = "done"
        /\ Len(t.resps) = 2 /\ t.resps[2].status = 500
        /\ Len(t.result) = 1 /\ Len(t.reqs) = 2

---------------------------------------------------------------------------
(* fetch_readme. *)

CandidateNames == <<"readme.md", "README.md", "Readme.md">>

\* the status of the answer to candidate j of a README lookup (its request
\* j + 1, after the default-branch request)
CandStatus(t, j) == t.resps[j + 1].status

\* C3: the candidate requests of a README lookup are readme.md, README.md,
\* Readme.md in that order, each at most once; a 404 on a candidate that is
\* not the last is followed by the request of the next one; and once a
\* candidate answers 200 after 404s on all earlier ones, the lookup has
\* returned that answer's text and has issued no further request.
C3_FirstFoundCandidate ==
    LET t == readmeTask
    IN  /\ Len(t.reqs) <= 4
        /\ \A j \in 1..(Len(t.reqs) - 1) :
              t.reqs[j + 1].url[Len(t.reqs[j + 1].url)] = CandidateNames[j]
        /\ \A j \in 1..(Len(t.resps) - 1) :
              /\ (CandStatus(t, j) = 404 /\ j < 3) => Len(t.reqs) >= j + 2
              /\ (CandStatus(t, j) = 200 /\ \A i \in 1..(j - 1) : CandStatus(t, i) = 404) =>
                    /\ t.st = "done"
                    /\ t.result = <<t.resps[j + 1].body>>
                    /\ Len(t.reqs) = j + 1

\* readme.md and README.md answered 404, Readme.md answered 200 with a text
C3_Witness ==
    LET t == readmeTask
    IN  /\ t.st = "done" /\ Len(t.resps) = 4
        /\ CandStatus(t, 1) = 404 /\ CandStatus(t, 2) = 404 /\ CandStatus(t, 3) = 200
        /\ t.result = <<"# coin">>
        /\ t.reqs[4].url[7] = "Readme.md"

\* C4: once a candidate answers with a status other than 200 and 404, the
\* README lookup has returned null and has issued no further request; once
\* all three candidates have answered 404 it has returned null after exactly
\* three candidate requests.
C4_ReadmeFailure ==
    LET t == readmeTask
    IN  /\ \A j \in 1..(Len(t.resps) - 1) :
              CandStatus(t, j) \notin {200, 404} =>
                 /\ t.st = "done"
                 /\ t.result = <<>>
                 /\ Len(t.reqs) = j + 1
        /\ (Len(t.resps) = 4 /\ \A j \in 1..3 : CandStatus(t, j) = 404) =>
              /\ t.st = "done"
              /\ t.result = <<>>
              /\ Len(t.reqs) = 4

\* the first candidate answered 500
C4_Witness ==
    LET t == readmeTask
    IN  /\ t.st = "done" /\ Len(t.resps) = 2 /\ CandStatus(t, 1) = 500
        /\ t.result = <<>> /\ Len(t.reqs) = 2

---------------------------------------------------------------------------
(* fetch_default_branch, as called at line 37. *)

\* C5: once the metadata request of a file listing is answered, the branch
\* is "master" if the fetch returned null, whatever the URL, and the value
\* of the body's default_branch field if the fetch succeeded and the body
\* has the field; in both cases the caller has gone on to its next request.
C5_DefaultBranch ==
    LET t == filesTask
    IN  Len(t.resps) >= 1 =>
           LET r == t.resps[1]
           IN  /\ t.st \in {"contents", "done"}
               /\ r.status # 200 => t.default_branch = "master"
               /\ (r.status = 200 /\ \E p \in r.body : p[1] = "default_branch") =>
                     <<"default_branch", t.default_branch>> \in r.body

\* a URL outside github.com whose metadata request answered 404
C5_Witness ==
    LET t == filesTask
    IN  /\ Len(t.resps) >= 1 /\ t.resps[1].status = 404
        /\ t.repo_url = <<"https:", "", "gitlab.com", "octo", "coin">>
        /\ t.default_branch = "master"
        /\ Len(t.reqs) = 2

---------------------------------------------------------------------------
(* fetch_repository_files. *)

\* the entries of a listing whose type is "file", in the listing's order
FileEntriesOf(listing) ==
    LET kept == SelectSeq(listing, LAMBDA e : e.type = "file")
    IN  [i \in 1..Len(kept) |->
            [name |-> kept[i].name, path |-> kept[i].path,
             url |-> kept[i].html_url, last_updated |-> kept[i].git_url]]

\* C6: a file listing returns null when its contents request fails, and the
\* file entries of the answer, in order, whenever the request succeeds, also
\* when the answer has no entries or no file entries.
C6_FilesOrNullOnFailure ==
    LET t == filesTask
    IN  t.st = "done" =>
           LET r == t.resps[2]
           IN  /\ r.status # 200 => t.result = <<>>
               /\ r.status = 200 => t.result = <<FileEntriesOf(r.body)>>

---------------------------------------------------------------------------
(* fetch_crypto_repositories: deduplication. *)

\* the positions of the records of `recs` with the given id
WithId(recs, id) == {i \in 1..Len(recs) : recs[i].id = id}

\* C1: the collection written to the file holds exactly one record for each
\* id of the concatenated search results, and no record with another id.
C1_OneRecordPerId ==
    outfile.state = "written" =>
       /\ \A j \in 1..Len(repositories) :
             Cardinality(WithId(outfile.data, repositories[j].id)) = 1
       /\ \A i \in 1..Len(outfile.data) :
             WithId(repositories, outfile.data[i].id) # {}

\* written after a search that returned the same id twice
C1_Witness ==
    /\ outfile.state = "written"
    /\ \E j, k \in 1..Len(repositories) : j < k /\ repositories[j].id = repositories[k].id
    /\ \E j, k \in 1..Len(repositories) : repositories[j].id # repositories[k].id
    /\ Len(outfile.data) = 2

\* C9: the record written for an id carries the summary fields of the last
\* summary with that id in the concatenated search results.
C9_LastWriteWins ==
    outfile.state = "written" =>
       \A i \in 1..Len(outfile.data) :
          LET same == WithId(repositories, outfile.data[i].id)
              last == CHOOSE j \in same : \A k \in same : k <= j
          IN  \A f \in SummaryFields : outfile.data[i][f] = repositories[last][f]

\* written after a search that returned two revisions of one repository, the
\* older one last
C9_Witness ==
    /\ outfile.state = "written"
    /\ Len(repositories) = 2
    /\ repositories[1].id = 1 /\ repositories[1].updated_at = 2
    /\ repositories[2].id = 1 /\ repositories[2].updated_at = 1
    /\ Len(outfile.data) = 1 /\ outfile.data[1].updated_at = 1

---------------------------------------------------------------------------
(* fetch_crypto_repositories: one request at a time. *)

\* C7: at most one request is in flight; the README lookup of a repository
\* issues no request before its file listing has returned; between two
\* queries and between two repositories no request is in flight; and a
\* request in flight belongs to the query or the repository of the current
\* iteration.
C7_OneRequestAtATime ==
    /\ Cardinality(InFlight) <= 1
    /\ readmeTask.st \notin {"none", "created"} => filesTask.st \in {"none", "done"}
    /\ readmeTask.st \notin {"none", "created"} => pc = "await_readme"
    /\ pc \in {"loop_queries", "loop_repos", "dump", "done"} => InFlight = {}
    /\ searchTask.pending # None =>
          pc = "await_search" /\ searchTask.query = Queries[qi]
    /\ filesTask.pending # None =>
          pc = "await_files" /\ filesTask.repo_url = unique_repos[ri].html_url
    /\ readmeTask.pending # None =>
          readmeTask.repo_url = unique_repos[ri].html_url

\* the README lookup of the second repository has a candidate request in flight
C7_Witness ==
    /\ pc = "await_readme" /\ ri = 2
    /\ readmeTask.st = "candidate" /\ readmeTask.pending # None
    /\ Len(repo_data) = 1

---------------------------------------------------------------------------
(* fetch_crypto_repositories: failed lookups. *)

\* every step of the run but its interruption
Progress ==
    \/ SearchCreate \/ SearchStep \/ AwaitSearchReturn \/ Dedup
    \/ CreateTasks \/ FilesStep \/ AwaitFilesReturn
    \/ ReadmeStep \/ AwaitReadmeReturn
    \/ OpenOutput \/ Dump

C8_Records ==
    /\ Len(repo_data) = ri - 1
    /\ \A i \in 1..Len(repo_data) :
          \A f \in SummaryFields : repo_data[i][f] = unique_repos[i][f]
    /\ pc = "done" =>
          /\ outfile.data = repo_data
          /\ Len(repo_data) = Len(unique_repos)
    /\ pc \notin {"done", "interrupted"} => ENABLED Progress

C8_Stores ==
    /\ (pc = "await_files" /\ pc' = "await_readme") => repo_files' = filesTask.result
    /\ (pc = "await_readme" /\ pc' = "loop_repos") =>
          /\ Len(repo_data') = Len(repo_data) + 1
          /\ SubSeq(repo_data', 1, Len(repo_data)) = repo_data
          /\ repo_data'[Len(repo_data')].files = repo_files
          /\ repo_data'[Len(repo_data')].readme = readmeTask.result

\* C8: whatever the lookups return, the run can always go on until it is
\* done; each repository of the loop gets one record, in order, whose files
\* and readme are the values its two lookups returned (null included); and
\* the collection written holds a record for every unique repository.
C8_FailuresKept == []C8_Records /\ [][C8_Stores]_vars

\* done with two records, the first with both lookups failed
C8_Witness ==
    /\ pc = "done" /\ Len(outfile.data) = 2
    /\ outfile.data[1].files = <<>> /\ outfile.data[1].readme = <<>>
    /\ outfile.data[2].readme # <<>>

---------------------------------------------------------------------------
(* fetch_crypto_repositories: the output file. *)

C10_File ==
    /\ writes <= 1
    /\ pc = "done" => writes = 1 /\ outfile = [state |-> "written", data |-> repo_data]
    /\ pc \notin {"dump", "done", "interrupted"} => outfile = OldFile /\ writes = 0

C10_Change ==
    /\ outfile' # outfile =>
          /\ qi > Len(Queries) /\ ri > Len(unique_repos)
          /\ Len(repo_data) = Len(unique_repos)
          /\ InFlight = {}
          /\ searchTask.st = "none" /\ filesTask.st = "none" /\ readmeTask.st = "none"
    /\ (pc' = "interrupted" /\ pc # "dump") => outfile' = OldFile /\ writes' = 0

\* C10: the file is written at most once, and once when the run is done; it
\* changes only when every query has been searched and every repository has
\* its record, with no lookup left; and a run interrupted before it opens the
\* file leaves the file as it found it.
C10_WrittenOnceAtTheEnd == []C10_File /\ [][C10_Change]_vars

\* done, with two records written in one write
C10_Witness ==
    /\ pc = "done" /\ writes = 1
    /\ outfile.state = "written" /\ Len(outfile.data) = 2

====
